---------------------------- MODULE Spec2Model ----------------------------
(***************************************************************************)
(* Model of bible_image_generator.py: the quote source chain, the weighted *)
(* style selector, the prompt length validator and the run of main().      *)
(*                                                                         *)
(* Texts.  A prompt is a sequence of tokens [k, n].  k = "x" is a run of n *)
(* characters that are not spaces and belong to no phrase of the           *)
(* validator's tables; k = " " is a run of n spaces; any other k is that   *)
(* literal string repeated n times.  len(), slicing, rfind(' '), rstrip()  *)
(* and replace() are computed on the characters the tokens stand for.      *)
(***************************************************************************)
EXTENDS Integers, Sequences, FiniteSets, TLC

VARIABLES
    \* PromptLengthValidator exercised on its own
    tpc, tprompt, tfirst, tsecond, prompt_length_env,
    \* WeightedStyleSelector exercised on its own
    spc, styles, total_weight, draw, selected,
    \* QuoteFetcher and the quote sources
    pc, source_cfg, fetcher, quote, fetch_log, fetch_propagated, calls,
    \* the run of main()
    cfg, generator, weather_info, art_style, backend, last, authored, handed, used, render_log,
    image_bytes, telegram_success, twitter_success, result

textVars == <<tpc, tprompt, tfirst, tsecond, prompt_length_env>>
selVars == <<spc, styles, total_weight, draw, selected>>
fetchVars == <<pc, source_cfg, fetcher, quote, fetch_log, fetch_propagated, calls>>
runVars == <<cfg, generator, weather_info, art_style, backend, last, authored, handed, used,
             render_log, image_bytes, telegram_success, twitter_success, result>>
vars == <<tpc, tprompt, tfirst, tsecond, prompt_length_env, spc, styles, total_weight, draw, selected,
          pc, source_cfg, fetcher, quote, fetch_log, fetch_propagated, calls,
          cfg, generator, weather_info, art_style, backend, last, authored, handed, used,
          render_log, image_bytes, telegram_success, twitter_success, result>>

None == "<None>"

(***************************************************************************)
(* Program constants                                                       *)
(***************************************************************************)
VENICE_PROMPT_LIMIT == 1500

redundant_phrases ==
    << "the image should", "the image must", "the image will",
       "make sure the image", "ensure the image", "the image needs to",
       "the image has to" >>

words_to_remove == << "very", "really", "quite", "extremely", "absolutely" >>

Ellipsis == [k |-> "...", n |-> 1]

(***************************************************************************)
(* Characters of the literals: the lengths of the maximal runs of          *)
(* non-space and space characters, alternating, a non-space run first.     *)
(***************************************************************************)
LitRuns(k) ==
    CASE k = "the image should"    -> <<3, 1, 5, 1, 6>>
      [] k = "the image must"      -> <<3, 1, 5, 1, 4>>
      [] k = "the image will"      -> <<3, 1, 5, 1, 4>>
      [] k = "make sure the image" -> <<4, 1, 4, 1, 3, 1, 5>>
      [] k = "ensure the image"    -> <<6, 1, 3, 1, 5>>
      [] k = "the image needs to"  -> <<3, 1, 5, 1, 5, 1, 2>>
      [] k = "the image has to"    -> <<3, 1, 5, 1, 3, 1, 2>>
      [] k = "very"                -> <<4>>
      [] k = "really"              -> <<6>>
      [] k = "quite"               -> <<5>>
      [] k = "extremely"           -> <<9>>
      [] k = "absolutely"          -> <<10>>
      [] k = "..."                 -> <<3>>
      \* the stand-ins for the text of a fetched quote
      \* the names and the joined characteristics of IMAGE_ART, and the fixed
      \* parts of the fallback prompt of create_prompt (a line break counts as
      \* a character that is not a space)
      [] k = "impressionism" ->
            <<13>>
      [] k = "loose brushwork, natural light, outdoor scenes, vibrant colors, captured moments" ->
            <<5, 1, 10, 1, 7, 1, 6, 1, 7, 1, 7, 1, 7, 1, 7, 1, 8, 1, 7>>
      [] k = "post_impressionism" ->
            <<18>>
      [] k = "bold colors, expressive brushstrokes, symbolic elements, emotional depth, structured composition" ->
            <<4, 1, 7, 1, 10, 1, 13, 1, 8, 1, 9, 1, 9, 1, 6, 1, 10, 1, 11>>
      [] k = "fauvism" ->
            <<7>>
      [] k = "intense colors, simplified forms, expressive brushwork, emotional impact, non-naturalistic palette" ->
            <<7, 1, 7, 1, 10, 1, 6, 1, 10, 1, 10, 1, 9, 1, 7, 1, 16, 1, 7>>
      [] k = "expressionism" ->
            <<13>>
      [] k = "distorted forms, intense colors, emotional expression, subjective perspective, dramatic contrast" ->
            <<9, 1, 6, 1, 7, 1, 7, 1, 9, 1, 11, 1, 10, 1, 12, 1, 8, 1, 8>>
      [] k = "cubism" ->
            <<6>>
      [] k = "geometric forms, multiple viewpoints, fragmented space, analytical approach, overlapping planes" ->
            <<9, 1, 6, 1, 8, 1, 11, 1, 10, 1, 6, 1, 10, 1, 9, 1, 11, 1, 6>>
      [] k = "futurism" ->
            <<8>>
      [] k = "dynamic lines, speed elements, technological themes, motion blur, modern subjects" ->
            <<7, 1, 6, 1, 5, 1, 9, 1, 13, 1, 7, 1, 6, 1, 5, 1, 6, 1, 8>>
      [] k = "dada" ->
            <<4>>
      [] k = "absurd elements, found objects, irrational composition, challenging norms, experimental techniques" ->
            <<6, 1, 9, 1, 5, 1, 8, 1, 10, 1, 12, 1, 11, 1, 6, 1, 12, 1, 10>>
      [] k = "surrealism" ->
            <<10>>
      [] k = "dreamlike elements, unusual juxtapositions, symbolic imagery, fantastical scenes, psychological depth" ->
            <<9, 1, 9, 1, 7, 1, 15, 1, 8, 1, 8, 1, 11, 1, 7, 1, 13, 1, 5>>
      [] k = "abstract_expressionism" ->
            <<22>>
      [] k = "gestural brushstrokes, emotional intensity, abstract forms, spontaneous creation, large scale" ->
            <<8, 1, 13, 1, 9, 1, 10, 1, 8, 1, 6, 1, 11, 1, 9, 1, 5, 1, 5>>
      [] k = "minimalism" ->
            <<10>>
      [] k = "simple forms, clean lines, limited palette, reduced elements, precise composition" ->
            <<6, 1, 6, 1, 5, 1, 6, 1, 7, 1, 8, 1, 7, 1, 9, 1, 7, 1, 11>>
      [] k = "mixed_media" ->
            <<11>>
      [] k = "diverse materials, layered elements, textural variety, experimental combinations, multimedia approach" ->
            <<7, 1, 10, 1, 7, 1, 9, 1, 8, 1, 8, 1, 12, 1, 13, 1, 10, 1, 8>>
      [] k = "street_art" ->
            <<10>>
      [] k = "urban elements, bold graphics, public space, social commentary, graffiti techniques" ->
            <<5, 1, 9, 1, 4, 1, 9, 1, 6, 1, 6, 1, 6, 1, 11, 1, 8, 1, 10>>
      [] k = "deconstructivist_art" ->
            <<20>>
      [] k = "geometric shapes, lines, deconstruction, abstraction, modernism" ->
            <<9, 1, 7, 1, 6, 1, 15, 1, 12, 1, 9>>
      [] k = "bible21 quote" ->
            <<7, 1, 5>>
      [] k = "dailyverses quote" ->
            <<11, 1, 5>>
      [] k = "fallback:head" ->
            <<6, 1, 1, 1, 8, 1, 3, 1, 10, 1, 5, 1, 12, 1, 4, 1, 5, 1, 6, 1,
              1>>
      [] k = "fallback:body" ->
            <<2, 12, 3, 1, 5, 1, 8, 12, 2, 1, 7, 1, 3, 1, 7, 1, 3, 1, 7, 1,
              2, 1, 3, 1, 6, 12, 2, 1, 3, 1, 8, 1, 8, 1, 3, 1, 10, 12, 2, 1,
              4, 1, 1, 1, 9, 1, 3, 1, 13, 1, 11, 12, 2, 1, 2, 1, 8, 1, 3, 1,
              7, 1, 2, 1, 6, 1, 6, 12, 2, 1, 3>>
      [] k = "fallback:style" ->
            <<5, 1, 4, 1, 5, 1, 16>>

RECURSIVE SumSeq(_)
SumSeq(s) == IF s = <<>> THEN 0 ELSE Head(s) + SumSeq(Tail(s))

IsRun(t) == t.k \in {"x", " "}

LitLen(k) == SumSeq(LitRuns(k))

TokLen(t) == IF IsRun(t) THEN t.n ELSE t.n * LitLen(t.k)

\* len(text)
RECURSIVE TextLen(_)
TextLen(s) == IF s = <<>> THEN 0 ELSE TokLen(Head(s)) + TextLen(Tail(s))

\* The canonical token sequence of a text: no empty token, no two adjacent
\* tokens of the same kind.
RECURSIVE Norm(_)
Norm(s) ==
    IF s = <<>> THEN <<>>
    ELSE IF Head(s).n = 0 THEN Norm(Tail(s))
    ELSE LET r == Norm(Tail(s)) IN
         IF r # <<>> /\ Head(r).k = Head(s).k
         THEN <<[k |-> Head(s).k, n |-> Head(s).n + Head(r).n]>> \o Tail(r)
         ELSE <<Head(s)>> \o r

\* The first c characters of one literal, as runs.
RECURSIVE LitPrefix(_, _, _)
LitPrefix(runs, c, nonspace) ==
    IF c <= 0 \/ runs = <<>> THEN <<>>
    ELSE LET m == IF Head(runs) <= c THEN Head(runs) ELSE c IN
         <<[k |-> IF nonspace THEN "x" ELSE " ", n |-> m]>>
            \o LitPrefix(Tail(runs), c - m, ~nonspace)

\* The first c characters of token t, for 0 < c < TokLen(t).
CutTok(t, c) ==
    IF IsRun(t) THEN <<[k |-> t.k, n |-> c]>>
    ELSE <<[k |-> t.k, n |-> c \div LitLen(t.k)]>>
            \o LitPrefix(LitRuns(t.k), c % LitLen(t.k), TRUE)

\* text[:c]
RECURSIVE Slice(_, _)
Slice(s, c) ==
    IF c <= 0 \/ s = <<>> THEN <<>>
    ELSE IF TokLen(Head(s)) <= c
         THEN <<Head(s)>> \o Slice(Tail(s), c - TokLen(Head(s)))
         ELSE CutTok(Head(s), c)

Prefix(s, c) == Norm(Slice(s, c))

\* Index of the last space inside token t (from the token's start), -1 if none.
LastSpaceInTok(t) ==
    IF t.k = " " THEN t.n - 1
    ELSE IF t.k = "x" \/ Len(LitRuns(t.k)) = 1 THEN -1
    ELSE TokLen(t) - LitRuns(t.k)[Len(LitRuns(t.k))] - 1

\* text.rfind(' ')
RECURSIVE RFindUpTo(_, _)
RFindUpTo(s, i) ==
    IF i = 0 THEN -1
    ELSE IF LastSpaceInTok(s[i]) >= 0
         THEN TextLen(SubSeq(s, 1, i - 1)) + LastSpaceInTok(s[i])
         ELSE RFindUpTo(s, i - 1)

RFindSpace(s) == RFindUpTo(s, Len(s))

\* text.rstrip()
RECURSIVE RStrip(_)
RStrip(s) ==
    IF s # <<>> /\ s[Len(s)].k = " " THEN RStrip(SubSeq(s, 1, Len(s) - 1)) ELSE s

\* text.replace(phrase, "")
RemovePhrase(s, phrase) == Norm(SelectSeq(s, LAMBDA t : ~(t.k = phrase)))

\* text.replace(" word ", " "): the occurrences are found from the left and do
\* not overlap, so a space consumed as the right end of one occurrence is not
\* the left end of the next.  avail: the character before s[i] is a space of
\* the input that no occurrence has consumed.
RECURSIVE ReplaceWordFrom(_, _, _, _)
ReplaceWordFrom(s, word, i, avail) ==
    IF i > Len(s) THEN <<>>
    ELSE IF /\ s[i].k = word /\ s[i].n = 1 /\ avail
            /\ i < Len(s) /\ s[i + 1].k = " "
         THEN \* the occurrence becomes one space: the word and one space go
              <<[k |-> " ", n |-> s[i + 1].n - 1]>>
                 \o ReplaceWordFrom(s, word, i + 2, s[i + 1].n > 1)
         ELSE <<s[i]>> \o ReplaceWordFrom(s, word, i + 1, s[i].k = " ")

RemoveWord(s, word) == Norm(ReplaceWordFrom(Norm(s), word, 1, FALSE))

(***************************************************************************)
(* PromptLengthValidator                                                   *)
(***************************************************************************)
\* for phrase in redundant_phrases: stop once the text fits, else remove it
RECURSIVE RemovePhrasesFrom(_, _)
RemovePhrasesFrom(truncated, i) ==
    IF i > Len(redundant_phrases) \/ TextLen(truncated) <= VENICE_PROMPT_LIMIT
    THEN truncated
    ELSE RemovePhrasesFrom(RemovePhrase(truncated, redundant_phrases[i]), i + 1)

\* for word in words_to_remove: stop once the text fits, else remove it
RECURSIVE RemoveWordsFrom(_, _)
RemoveWordsFrom(truncated, i) ==
    IF i > Len(words_to_remove) \/ TextLen(truncated) <= VENICE_PROMPT_LIMIT
    THEN truncated
    ELSE RemoveWordsFrom(RemoveWord(truncated, words_to_remove[i]), i + 1)

\* last_space > VENICE_PROMPT_LIMIT * 0.8
KeepWordBoundary(last_space) == 10 * last_space > 8 * VENICE_PROMPT_LIMIT

\* truncated[:VENICE_PROMPT_LIMIT], then back to the last space if that is
\* not too far back
HardCut(truncated) ==
    LET cut == Prefix(truncated, VENICE_PROMPT_LIMIT)
        last_space == RFindSpace(cut)
    IN IF KeepWordBoundary(last_space) THEN Prefix(cut, last_space) ELSE cut

\* len(truncated) < len(prompt)
TruncatedAtAll(truncated, prompt) == TextLen(truncated) < TextLen(prompt)

\* len(truncated) < len(prompt) * 0.9
TruncatedSignificantly(truncated, prompt) ==
    10 * TextLen(truncated) < 9 * TextLen(prompt)

AddEllipsis(truncated) == Norm(RStrip(truncated) \o <<Ellipsis>>)

truncate_prompt(prompt) ==
    IF TextLen(prompt) <= VENICE_PROMPT_LIMIT THEN prompt
    ELSE LET t1 == RemovePhrasesFrom(prompt, 1)
             t2 == IF TextLen(t1) > VENICE_PROMPT_LIMIT
                   THEN RemoveWordsFrom(t1, 1) ELSE t1
             t3 == IF TextLen(t2) > VENICE_PROMPT_LIMIT THEN HardCut(t2) ELSE t2
         IN IF TruncatedSignificantly(t3, prompt) THEN AddEllipsis(t3) ELSE t3

validate_prompt_length_strict(prompt) ==
    [is_valid |-> TextLen(prompt) < VENICE_PROMPT_LIMIT,
     char_count |-> TextLen(prompt)]

validate_prompt_length(prompt) ==
    [is_valid |-> TextLen(prompt) <= VENICE_PROMPT_LIMIT,
     char_count |-> TextLen(prompt)]

optimize_prompt(prompt) ==
    IF validate_prompt_length(prompt).is_valid
    THEN [text |-> prompt, was_truncated |-> FALSE]
    ELSE [text |-> truncate_prompt(prompt), was_truncated |-> TRUE]

(***************************************************************************)
(* Input texts of the validator: up to MaxTokens tokens of TextAlphabet,   *)
(* in canonical form.  The run lengths put the text's length and its last  *)
(* space on both sides of the limit, of 80% of the limit and of the 10%    *)
(* loss threshold.                                                         *)
(***************************************************************************)
MaxTokens == 3

XLens == {1, 299, 1200, 1499, 1700}

TextAlphabet ==
    [k : {"x"}, n : XLens] \cup [k : {" "}, n : {1, 2}]
    \cup [k : {"the image should"}, n : {1, 20}]
    \cup [k : {"make sure the image", "very", "extremely"}, n : {1}]

TextInputs ==
    {s \in UNION {[1..m -> TextAlphabet] : m \in 1..MaxTokens} : Norm(s) = s}

\* the environment's PROMPT_LENGTH_LIMIT: unset, or a number
EnvUnset == [set |-> FALSE, n |-> 0]

PromptLengthSettings == {EnvUnset} \cup [set : {TRUE}, n : {1000, 1500, 2000}]

\* Config.get_prompt_length_limit: int(os.getenv('PROMPT_LENGTH_LIMIT', '1500'))
get_prompt_length_limit(env) == IF env.set THEN env.n ELSE 1500

NoResult == [text |-> <<>>, was_truncated |-> FALSE]

TextInit ==
    /\ tpc = "input"
    /\ tprompt \in TextInputs
    /\ tfirst = NoResult
    /\ tsecond = NoResult
    /\ prompt_length_env \in PromptLengthSettings

TextIdle ==
    /\ tpc = "idle"
    /\ tprompt = <<>>
    /\ tfirst = NoResult
    /\ tsecond = NoResult
    /\ prompt_length_env = EnvUnset

\* optimized, was_truncated = PromptLengthValidator.optimize_prompt(prompt)
Optimize ==
    /\ tpc = "input"
    /\ tfirst' = optimize_prompt(tprompt)
    /\ tpc' = "once"
    /\ UNCHANGED <<tprompt, tsecond, prompt_length_env>>

\* the validator applied to its own output
OptimizeAgain ==
    /\ tpc = "once"
    /\ tsecond' = optimize_prompt(tfirst.text)
    /\ tpc' = "twice"
    /\ UNCHANGED <<tprompt, tfirst, prompt_length_env>>

(***************************************************************************)
(* WeightedStyleSelector.  A catalog is the sequence of the dict's entries *)
(* in insertion order.  random.uniform(0, total_weight) is                 *)
(* 0 + total_weight * random() with random() in [0, 1): the draw is r /    *)
(* DrawDen for an integer r, 0 <= r < DrawDen * total_weight, and is 0     *)
(* when total_weight is 0.                                                 *)
(***************************************************************************)
DrawDen == 2

Draws(total) == IF total <= 0 THEN {0} ELSE 0..(DrawDen * total - 1)

RECURSIVE SumWeights(_)
SumWeights(st) == IF st = <<>> THEN 0 ELSE Head(st).weight + SumWeights(Tail(st))

\* WeightedStyleSelector.__init__: self.total_weight
SelectorTotal(st) == SumWeights(st)

NoSelection == [kind |-> "none"]

Chosen(st, i) == [kind |-> "ok", name |-> st[i].name, style |-> st[i]]

\* r < current
DrawReachedStrict(r, current) == r < DrawDen * current

\* r <= current
DrawReached(r, current) == r <= DrawDen * current

\* the loop of select_style, from entry i with the running sum current
RECURSIVE WalkStyles(_, _, _, _)
WalkStyles(st, r, i, current) ==
    IF i > Len(st) THEN Chosen(st, Len(st))          \* fall back to the last
    ELSE IF DrawReached(r, current + st[i].weight) THEN Chosen(st, i)
    ELSE WalkStyles(st, r, i + 1, current + st[i].weight)

select_style_silent(st, r) ==
    IF st = <<>> THEN NoSelection ELSE WalkStyles(st, r, 1, 0)

select_style(st, r) ==
    IF st = <<>> THEN [kind |-> "raise", exc |-> "ValueError"]
    ELSE WalkStyles(st, r, 1, 0)

(***************************************************************************)
(* The selector on catalogs of up to MaxCatalog entries with weights       *)
(* 0..MaxWeight.                                                           *)
(***************************************************************************)
MaxCatalog == 3
MaxWeight == 2

StyleNames == <<"style1", "style2", "style3", "style4", "style5">>

Entry(i, w) == [name |-> StyleNames[i], weight |-> w, shortcut |-> StyleNames[i],
                has_name |-> FALSE]

Catalogs ==
    {[i \in 1..Len(ws) |-> Entry(i, ws[i])] :
        ws \in UNION {[1..m -> 0..MaxWeight] : m \in 0..MaxCatalog}}

SelInit ==
    /\ spc = "new"
    /\ styles \in Catalogs
    /\ total_weight = 0
    /\ draw = 0
    /\ selected = NoSelection

SelIdle ==
    /\ spc = "idle"
    /\ styles = <<>>
    /\ total_weight = 0
    /\ draw = 0
    /\ selected = NoSelection

\* WeightedStyleSelector(styles)
SelConstruct ==
    /\ spc = "new"
    /\ total_weight' = SelectorTotal(styles)
    /\ spc' = "ready"
    /\ UNCHANGED <<styles, draw, selected>>

\* selector.select_style()
SelSelect ==
    /\ spc \in {"ready", "selected"}
    /\ \E r \in Draws(total_weight) :
          /\ draw' = r
          /\ selected' = select_style(styles, r)
    /\ spc' = "selected"
    /\ UNCHANGED <<styles, total_weight>>

(***************************************************************************)
(* Quote sources.  A source's fetch_quote is given the outcome of each     *)
(* request it may make, resp[1..MAX_RETRIES]:                              *)
(*   "quote"     the page holds the quote element, with text               *)
(*   "verse_only" (dailyverses) the verse without a reference link         *)
(*   "blank"     the element is there and its stripped text is empty       *)
(*   "partial"   (dailyverses) div.b1 is there, span.v1 is not             *)
(*   "nomarkup"  the response lacks the quote element                      *)
(*   "reqerr"    requests.RequestException (timeout, connection, status)   *)
(*   "raise"     any other exception, e.g. the parser rejecting the page   *)
(* and returns a report: the value returned (None, "" or the text), or     *)
(* raised = TRUE when the exception leaves fetch_quote, with the number of *)
(* loop attempts, of HTTP requests (debug_quote_element makes one more)    *)
(* and of RETRY_DELAY sleeps.                                              *)
(***************************************************************************)
MAX_RETRIES == 3

Sources == {"bible21", "dailyverses"}

SourceIds == Sources \cup {"unknown"}

Bible21Outcomes == {"quote", "blank", "nomarkup", "reqerr", "raise"}

DailyVersesOutcomes ==
    {"quote", "verse_only", "blank", "partial", "nomarkup", "reqerr", "raise"}

Outcomes(source) ==
    IF source = "bible21" THEN Bible21Outcomes ELSE DailyVersesOutcomes

Responses(source) == [1..MAX_RETRIES -> Outcomes(source)]

Report(source, value, raised, why, attempts, requests, sleeps) ==
    [source |-> source, value |-> value, raised |-> raised, why |-> why,
     attempts |-> attempts, requests |-> requests, sleeps |-> sleeps]

\* if attempt == Config.MAX_RETRIES - 1: self.debug_quote_element()
DebugRequests(attempt) == IF attempt = MAX_RETRIES - 1 THEN 1 ELSE 0

\* Bible21QuoteSource.fetch_quote, from loop index attempt (0-based); extra
\* counts the requests of debug_quote_element
RECURSIVE Bible21Loop(_, _, _)
Bible21Loop(resp, attempt, sleeps) ==
    IF attempt >= MAX_RETRIES
    THEN Report("bible21", None, FALSE, "loop_end", attempt, attempt, sleeps)
    ELSE LET o == resp[attempt + 1]
             n == attempt + 1
         IN CASE o = "quote" ->
                   Report("bible21", "bible21 quote", FALSE, "found", n, n, sleeps)
              [] o = "blank" ->
                   Report("bible21", "", FALSE, "found", n, n, sleeps)
              [] o = "nomarkup" ->
                   Report("bible21", None, FALSE, "nomarkup", n,
                          n + DebugRequests(attempt), sleeps)
              [] o = "reqerr" ->
                   IF attempt < MAX_RETRIES - 1
                   THEN Bible21Loop(resp, attempt + 1, sleeps + 1)
                   ELSE Report("bible21", None, FALSE, "exhausted", n, n, sleeps)
              [] OTHER ->
                   Report("bible21", None, TRUE, "raised", n, n, sleeps)

Bible21_fetch_quote(resp) == Bible21Loop(resp, 0, 0)

\* DailyVersesQuoteSource.fetch_quote; extra: requests of debug_quote_element
\* made so far
RECURSIVE DailyVersesLoop(_, _, _)
DailyVersesLoop(resp, attempt, sleeps) ==
    IF attempt >= MAX_RETRIES
    THEN Report("dailyverses", None, FALSE, "loop_end", attempt, attempt, sleeps)
    ELSE LET o == resp[attempt + 1]
             n == attempt + 1
         IN CASE o \in {"quote", "verse_only"} ->
                   Report("dailyverses", "dailyverses quote", FALSE, "found",
                          n, n, sleeps)
              [] o = "blank" ->
                   Report("dailyverses", "", FALSE, "found", n, n, sleeps)
              [] o = "partial" ->     \* no return, no sleep: the loop goes on
                   DailyVersesLoop(resp, attempt + 1, sleeps)
              [] o = "nomarkup" ->
                   Report("dailyverses", None, FALSE, "nomarkup", n,
                          n + DebugRequests(attempt), sleeps)
              [] o = "reqerr" ->
                   IF attempt < MAX_RETRIES - 1
                   THEN DailyVersesLoop(resp, attempt + 1, sleeps + 1)
                   ELSE Report("dailyverses", None, FALSE, "exhausted", n, n, sleeps)
              [] OTHER ->
                   Report("dailyverses", None, TRUE, "raised", n, n, sleeps)

DailyVerses_fetch_quote(resp) == DailyVersesLoop(resp, 0, 0)

\* self.sources[name].fetch_quote()
SourceFetch(source, resp) ==
    IF source = "bible21" THEN Bible21_fetch_quote(resp)
    ELSE DailyVerses_fetch_quote(resp)

(***************************************************************************)
(* QuoteFetcher                                                            *)
(***************************************************************************)
\* `if quote:` -- None and "" are falsy
Truthy(v) == v # None /\ v # ""

\* the identifier as configured
ResolveSourceKeep(id) == id

\* the validation of one identifier in QuoteFetcher.__init__
ResolveSource(id) == IF id \in Sources THEN id ELSE "bible21"

QuoteFetcher_init(c) ==
    [current_source |-> ResolveSource(c.QUOTE_SOURCE),
     fallback_source |-> ResolveSource(c.FALLBACK_SOURCE)]

QuoteFoundInverted(value) == ~Truthy(value)

\* if quote: return quote
QuoteFound(value) == Truthy(value)

FallbackAlways(f) == TRUE

\* if self.fallback_source != self.current_source
FallbackDiffers(f) == f.fallback_source # f.current_source

FetchQuoteUncaught == [value |-> None, propagated |-> TRUE]

\* except Exception as e: ... return None
FetchQuoteExcept == [value |-> None, propagated |-> FALSE]

NoFetcher == [current_source |-> None, fallback_source |-> None]

NoCalls ==
    [op \in {"bible21", "dailyverses", "weather", "author", "venice",
             "together", "telegram", "twitter"} |-> 0]

Called(c, op) == [c EXCEPT ![op] = @ + 1]

\* quote_fetcher = QuoteFetcher()
ConstructFetcher ==
    /\ pc = "construct"
    /\ fetcher' = QuoteFetcher_init(source_cfg)
    /\ pc' = "primary"
    /\ UNCHANGED <<source_cfg, quote, fetch_log, fetch_propagated, calls,
                   runVars, selVars>>

\* QuoteFetcher.fetch_quote up to the fallback: the current source is tried
FetchPrimary ==
    /\ pc = "primary"
    /\ \E resp \in Responses(fetcher.current_source) :
          LET rep == SourceFetch(fetcher.current_source, resp) IN
          /\ fetch_log' = <<rep>>
          /\ calls' = Called(calls, fetcher.current_source)
          /\ IF rep.raised
             THEN /\ quote' = FetchQuoteExcept.value
                  /\ fetch_propagated' = FetchQuoteExcept.propagated
                  /\ pc' = "fetched"
             ELSE IF QuoteFound(rep.value)
             THEN /\ quote' = rep.value
                  /\ pc' = "fetched"
                  /\ UNCHANGED fetch_propagated
             ELSE IF FallbackDiffers(fetcher)
             THEN /\ pc' = "fallback"
                  /\ UNCHANGED <<quote, fetch_propagated>>
             ELSE /\ quote' = None
                  /\ pc' = "fetched"
                  /\ UNCHANGED fetch_propagated
    /\ UNCHANGED <<source_cfg, fetcher, runVars, selVars>>

\* QuoteFetcher.fetch_quote from the fallback on
FetchFallback ==
    /\ pc = "fallback"
    /\ \E resp \in Responses(fetcher.fallback_source) :
          LET rep == SourceFetch(fetcher.fallback_source, resp) IN
          /\ fetch_log' = Append(fetch_log, rep)
          /\ calls' = Called(calls, fetcher.fallback_source)
          /\ IF rep.raised
             THEN /\ quote' = FetchQuoteExcept.value
                  /\ fetch_propagated' = FetchQuoteExcept.propagated
             ELSE IF QuoteFound(rep.value)
             THEN /\ quote' = rep.value
                  /\ UNCHANGED fetch_propagated
             ELSE /\ quote' = None
                  /\ UNCHANGED fetch_propagated
    /\ pc' = "fetched"
    /\ UNCHANGED <<source_cfg, fetcher, runVars, selVars>>

FetchInit ==
    /\ pc = "construct"
    /\ source_cfg \in [QUOTE_SOURCE : SourceIds, FALLBACK_SOURCE : SourceIds]
    /\ fetcher = NoFetcher
    /\ quote = None
    /\ fetch_log = <<>>
    /\ fetch_propagated = FALSE
    /\ calls = NoCalls

FetchIdle ==
    /\ pc = "idle"
    /\ source_cfg = [QUOTE_SOURCE |-> "bible21", FALLBACK_SOURCE |-> "dailyverses"]
    /\ fetcher = NoFetcher
    /\ quote = None
    /\ fetch_log = <<>>
    /\ fetch_propagated = FALSE
    /\ calls = NoCalls

(***************************************************************************)
(* Configuration.  telegram_ok: the token and chat id of the current mode  *)
(* are set; twitter_keys: the five Twitter credentials are set; the *_key  *)
(* fields: the service's API key is set.                                   *)
(***************************************************************************)
Configs ==
    [telegram_ok : BOOLEAN, twitter_enabled : BOOLEAN, twitter_keys : BOOLEAN,
     weather_enabled : BOOLEAN,
     ai_service : {"groq", "venice", "other"},
     image_service : {"together", "venice", "other"},
     groq_key : BOOLEAN, venice_key : BOOLEAN, together_key : BOOLEAN]

validate_telegram_config(c) == c.telegram_ok

validate_twitter_config_lenient(c) == TRUE

validate_twitter_config(c) == ~c.twitter_enabled \/ c.twitter_keys

validate_ai_config(c) ==
    /\ CASE c.ai_service = "groq" -> c.groq_key
         [] c.ai_service = "venice" -> c.venice_key
         [] OTHER -> FALSE
    /\ CASE c.image_service = "together" -> c.together_key
         [] c.image_service = "venice" -> c.venice_key
         [] OTHER -> FALSE

\* PromptGeneratorFactory.get_prompt_generator
get_prompt_generator(c) ==
    IF c.ai_service = "venice"
    THEN IF ~c.venice_key THEN "groq" ELSE "venice"
    ELSE "groq"

get_image_generator_unchecked(c) ==
    IF c.image_service = "venice" THEN "venice" ELSE "together"

\* ImageGeneratorFactory.get_image_generator
get_image_generator(c) ==
    IF c.image_service = "venice"
    THEN IF ~c.venice_key THEN "together" ELSE "venice"
    ELSE "together"

\* Config.QUOTE_SOURCE, Config.FALLBACK_SOURCE
HardcodedSources == [QUOTE_SOURCE |-> "bible21", FALLBACK_SOURCE |-> "dailyverses"]

(***************************************************************************)
(* The style catalog                                                       *)
(***************************************************************************)
IMAGE_ART ==
    << [name |-> "impressionism", weight |-> 9, shortcut |-> "imp",
        characteristics |-> "loose brushwork, natural light, outdoor scenes, vibrant colors, captured moments",
        has_name |-> FALSE],
       [name |-> "post_impressionism", weight |-> 10, shortcut |-> "pim",
        characteristics |-> "bold colors, expressive brushstrokes, symbolic elements, emotional depth, structured composition",
        has_name |-> FALSE],
       [name |-> "fauvism", weight |-> 5, shortcut |-> "fau",
        characteristics |-> "intense colors, simplified forms, expressive brushwork, emotional impact, non-naturalistic palette",
        has_name |-> FALSE],
       [name |-> "expressionism", weight |-> 9, shortcut |-> "exp",
        characteristics |-> "distorted forms, intense colors, emotional expression, subjective perspective, dramatic contrast",
        has_name |-> FALSE],
       [name |-> "cubism", weight |-> 8, shortcut |-> "cub",
        characteristics |-> "geometric forms, multiple viewpoints, fragmented space, analytical approach, overlapping planes",
        has_name |-> FALSE],
       [name |-> "futurism", weight |-> 4, shortcut |-> "fut",
        characteristics |-> "dynamic lines, speed elements, technological themes, motion blur, modern subjects",
        has_name |-> FALSE],
       [name |-> "dada", weight |-> 8, shortcut |-> "dad",
        characteristics |-> "absurd elements, found objects, irrational composition, challenging norms, experimental techniques",
        has_name |-> FALSE],
       [name |-> "surrealism", weight |-> 4, shortcut |-> "sur",
        characteristics |-> "dreamlike elements, unusual juxtapositions, symbolic imagery, fantastical scenes, psychological depth",
        has_name |-> FALSE],
       [name |-> "abstract_expressionism", weight |-> 7, shortcut |-> "aex",
        characteristics |-> "gestural brushstrokes, emotional intensity, abstract forms, spontaneous creation, large scale",
        has_name |-> FALSE],
       [name |-> "minimalism", weight |-> 7, shortcut |-> "min",
        characteristics |-> "simple forms, clean lines, limited palette, reduced elements, precise composition",
        has_name |-> FALSE],
       [name |-> "mixed_media", weight |-> 8, shortcut |-> "mix",
        characteristics |-> "diverse materials, layered elements, textural variety, experimental combinations, multimedia approach",
        has_name |-> FALSE],
       [name |-> "street_art", weight |-> 4, shortcut |-> "str",
        characteristics |-> "urban elements, bold graphics, public space, social commentary, graffiti techniques",
        has_name |-> FALSE],
       [name |-> "deconstructivist_art", weight |-> 8, shortcut |-> "dec",
        characteristics |-> "geometric shapes, lines, deconstruction, abstraction, modernism",
        has_name |-> FALSE] >>

(***************************************************************************)
(* WeatherAPI: outcomes of one request                                     *)
(*   "data"    JSON with daily.data      "nodata"  JSON without it         *)
(*   "reqerr"  requests.RequestException "raise"   any other exception     *)
(***************************************************************************)
WeatherOutcomes == {"data", "nodata", "reqerr", "raise"}

RECURSIVE WeatherLoop(_, _, _)
WeatherLoop(resp, attempt, sleeps) ==
    IF attempt >= MAX_RETRIES
    THEN Report("weather", None, FALSE, "loop_end", attempt, attempt, sleeps)
    ELSE LET o == resp[attempt + 1]
             n == attempt + 1
         IN CASE o = "data" ->
                   Report("weather", "weather data", FALSE, "found", n, n, sleeps)
              [] o = "nodata" ->
                   Report("weather", None, FALSE, "nodata", n, n, sleeps)
              [] o = "reqerr" ->
                   IF attempt < MAX_RETRIES - 1
                   THEN WeatherLoop(resp, attempt + 1, sleeps + 1)
                   ELSE Report("weather", None, FALSE, "exhausted", n, n, sleeps)
              [] OTHER ->
                   Report("weather", None, TRUE, "raised", n, n, sleeps)

fetch_weather(enabled, resp) ==
    IF ~enabled THEN Report("weather", None, FALSE, "disabled", 0, 0, 0)
    ELSE WeatherLoop(resp, 0, 0)

\* the same outcome at every request
Repeat(o) == [i \in 1..MAX_RETRIES |-> o]

\* a first request with outcome r, then o at every later one
RetryThen(r, o) == [i \in 1..MAX_RETRIES |-> IF i = 1 THEN r ELSE o]

WeatherResponses ==
    {Repeat(o) : o \in WeatherOutcomes} \cup
    {RetryThen("reqerr", o) : o \in WeatherOutcomes}

format_weather_for_caption(weather_data) ==
    IF weather_data = None THEN "" ELSE "icon"

(***************************************************************************)
(* Prompt authoring.  A provider's answer is one of two texts, nothing, or *)
(* an error; create_prompt falls back to a prompt built locally.           *)
(***************************************************************************)
Lit(k) == [k |-> k, n |-> 1]

ShortText == <<[k |-> "x", n |-> 299]>>

LongText == <<[k |-> "x", n |-> 1200], [k |-> " ", n |-> 1], [k |-> "x", n |-> 1700]>>

AnswerText(o) == IF o = "short" THEN ShortText ELSE LongText

NoPrompt == [none |-> TRUE, text |-> <<>>]

SomePrompt(text) == [none |-> FALSE, text |-> text]

GroqOutcomes == {"short", "long", "empty", "error"}

VeniceChatOutcomes == {"short", "long", "empty", "429", "reqerr", "error"}

VeniceChatResponses == {Repeat(o) : o \in VeniceChatOutcomes}

PromptReport(value, why, attempts, sleeps) ==
    [source |-> "author", value |-> value, raised |-> FALSE, why |-> why,
     attempts |-> attempts, requests |-> attempts, sleeps |-> sleeps]

\* GroqPromptGenerator.generate_enhanced_prompt after the weather fetch
GroqCall(c, o) ==
    IF ~c.groq_key THEN PromptReport(NoPrompt, "error", 0, 0)
    ELSE CASE o \in {"short", "long"} ->
                 PromptReport(SomePrompt(AnswerText(o)), "found", 1, 0)
           [] o = "empty" -> PromptReport(SomePrompt(<<>>), "found", 1, 0)
           [] OTHER -> PromptReport(NoPrompt, "error", 1, 0)

\* the request loop of VenicePromptGenerator.generate_enhanced_prompt
RECURSIVE VeniceChatLoop(_, _, _)
VeniceChatLoop(resp, attempt, sleeps) ==
    IF attempt >= MAX_RETRIES
    THEN PromptReport(NoPrompt, "loop_end", attempt, sleeps)
    ELSE LET o == resp[attempt + 1]
             n == attempt + 1
         IN CASE o \in {"short", "long"} ->
                   PromptReport(SomePrompt(optimize_prompt(AnswerText(o)).text),
                                "found", n, sleeps)
              [] o = "empty" ->
                   PromptReport(SomePrompt(optimize_prompt(<<>>).text),
                                "found", n, sleeps)
              [] o = "429" -> VeniceChatLoop(resp, attempt + 1, sleeps + 1)
              [] o = "reqerr" ->
                   IF attempt < MAX_RETRIES - 1
                   THEN VeniceChatLoop(resp, attempt + 1, sleeps + 1)
                   ELSE PromptReport(NoPrompt, "error", n, sleeps)
              [] OTHER -> PromptReport(NoPrompt, "error", n, sleeps)

\* generate_enhanced_prompt of the configured generator; the weather fetch is
\* inside its try block
generate_enhanced_prompt(c, wrep, o, resp) ==
    IF wrep.raised THEN PromptReport(NoPrompt, "error", 0, 0)
    ELSE IF get_prompt_generator(c) = "groq" THEN GroqCall(c, o)
    ELSE VeniceChatLoop(resp, 0, 0)

\* the fallback prompt of create_prompt
LocalPrompt(q, style) ==
    << Lit("fallback:head"), Lit(q), Lit("fallback:body"), [k |-> " ", n |-> 1],
       Lit(style.name), [k |-> " ", n |-> 1], Lit("fallback:style"),
       [k |-> " ", n |-> 1], Lit(style.characteristics) >>

create_prompt_unless_none(enhanced_prompt, q, style) ==
    IF enhanced_prompt.none THEN LocalPrompt(q, style) ELSE enhanced_prompt.text

\* if not enhanced_prompt: ... fallback
create_prompt(enhanced_prompt, q, style) ==
    IF enhanced_prompt.none \/ enhanced_prompt.text = <<>>
    THEN LocalPrompt(q, style)
    ELSE enhanced_prompt.text

(***************************************************************************)
(* Rendering.  Outcomes of one request to Venice:                          *)
(*   "ok", "nodata", "429", a RequestException or another exception whose  *)
(*   message does or does not hold one of the length keywords.             *)
(* Outcomes of the call to Together: an image, an empty download, a        *)
(* response without data or url, a failed download, an exception.          *)
(***************************************************************************)
VeniceOutcomes ==
    {"ok", "nodata", "429", "reqerr_length", "reqerr_other",
     "error_length", "error_other"}

TogetherOutcomes ==
    {"ok", "ok_empty", "nodata", "nourl", "download_error",
     "error_length", "error_other"}

VeniceResponses == {Repeat(o) : o \in VeniceOutcomes}

ErrorKind(o) == IF o \in {"reqerr_length", "error_length"}
                THEN "error_length" ELSE "error_other"

\* the loop with one attempt more than MAX_RETRIES
RECURSIVE VeniceImageLoopOneMore(_, _, _)
VeniceImageLoopOneMore(resp, attempt, sleeps) ==
    IF attempt > MAX_RETRIES
    THEN Report("venice", None, FALSE, "loop_end", attempt, attempt, sleeps)
    ELSE LET o == resp[IF attempt < MAX_RETRIES THEN attempt + 1 ELSE MAX_RETRIES]
             n == attempt + 1
         IN CASE o = "ok" ->
                   Report("venice", "venice image", FALSE, "found", n, n, sleeps)
              [] o = "nodata" ->
                   Report("venice", None, FALSE, "nodata", n, n, sleeps)
              [] o = "429" -> VeniceImageLoopOneMore(resp, attempt + 1, sleeps + 1)
              [] o \in {"reqerr_length", "reqerr_other"} ->
                   IF attempt < MAX_RETRIES
                   THEN VeniceImageLoopOneMore(resp, attempt + 1, sleeps + 1)
                   ELSE Report("venice", None, TRUE, ErrorKind(o), n, n, sleeps)
              [] OTHER ->
                   Report("venice", None, TRUE, ErrorKind(o), n, n, sleeps)

\* the request loop of VeniceImageGenerator.generate_image
RECURSIVE VeniceImageLoop(_, _, _)
VeniceImageLoop(resp, attempt, sleeps) ==
    IF attempt >= MAX_RETRIES
    THEN Report("venice", None, FALSE, "loop_end", attempt, attempt, sleeps)
    ELSE LET o == resp[attempt + 1]
             n == attempt + 1
         IN CASE o = "ok" ->
                   Report("venice", "venice image", FALSE, "found", n, n, sleeps)
              [] o = "nodata" ->
                   Report("venice", None, FALSE, "nodata", n, n, sleeps)
              [] o = "429" -> VeniceImageLoop(resp, attempt + 1, sleeps + 1)
              [] o \in {"reqerr_length", "reqerr_other"} ->
                   IF attempt < MAX_RETRIES - 1
                   THEN VeniceImageLoop(resp, attempt + 1, sleeps + 1)
                   ELSE Report("venice", None, TRUE, ErrorKind(o), n, n, sleeps)
              [] OTHER ->
                   Report("venice", None, TRUE, ErrorKind(o), n, n, sleeps)

LengthRelatedAny(rep) == rep.raised

\* any(keyword in error_str for keyword in ['length', 'size', 'too long', 'limit'])
LengthRelated(rep) == rep.raised /\ rep.why = "error_length"

\* ImageGenerator.generate_image after create_prompt
TogetherCall(o) ==
    CASE o = "ok" -> Report("together", "together image", FALSE, "found", 1, 2, 0)
      [] o = "ok_empty" -> Report("together", "", FALSE, "found", 1, 2, 0)
      [] o = "download_error" ->
            Report("together", None, FALSE, "download_error", 1, 2, 0)
      [] o \in {"nodata", "nourl"} -> Report("together", None, FALSE, o, 1, 1, 0)
      [] OTHER -> Report("together", None, FALSE, ErrorKind(o), 1, 1, 0)

ImageNotNone(image) == image # None

ImageUnchecked(image) == TRUE

\* if not image_bytes: return False
ImageProduced(image) == Truthy(image)

\* TwitterBot.post_image: its return value for each outcome of the post
TwitterOutcomes == {"posted", "upload_error", "tweet_error"}

\* what post_image gives its caller: a value, or an exception leaving it
post_image_uncaught(o) == [value |-> TRUE, raised |-> o # "posted"]

\* both except blocks of post_image return True
post_image(o) == [value |-> TRUE, raised |-> FALSE]

TelegramIgnored(ok) == TRUE

\* if not telegram_success: return False
TelegramAccepted(ok) == ok

(***************************************************************************)
(* main() and process_quote_and_image()                                    *)
(***************************************************************************)
\* the styles a run has used: how often get_random_art_style was called, the
\* name of the style given to each create_prompt, and the two captions
NoCaption == [quote |-> None]

NothingUsed == [selections |-> 0, prompts |-> <<>>,
                telegram |-> NoCaption, twitter |-> NoCaption]

\* a caption that names the first entry of the catalog
TelegramCaptionFirst(w, q, style) ==
    [weather |-> w, quote |-> q, shortcut |-> IMAGE_ART[1].shortcut]

\* telegram_caption = f"{weather_info}{current_date}\n\n{quote}({art_style['shortcut']})"
\* (the date is left out)
TelegramCaption(w, q, style) ==
    [weather |-> w, quote |-> q, shortcut |-> style.shortcut]

\* art_style['name'].replace('_', ' ').title() with the spaces removed,
\* after '#', for each name of IMAGE_ART
StyleHashtag(name) ==
    CASE name = "impressionism" -> "#Impressionism"
      [] name = "post_impressionism" -> "#PostImpressionism"
      [] name = "fauvism" -> "#Fauvism"
      [] name = "expressionism" -> "#Expressionism"
      [] name = "cubism" -> "#Cubism"
      [] name = "futurism" -> "#Futurism"
      [] name = "dada" -> "#Dada"
      [] name = "surrealism" -> "#Surrealism"
      [] name = "abstract_expressionism" -> "#AbstractExpressionism"
      [] name = "minimalism" -> "#Minimalism"
      [] name = "mixed_media" -> "#MixedMedia"
      [] name = "street_art" -> "#StreetArt"
      [] name = "deconstructivist_art" -> "#DeconstructivistArt"

\* TwitterBot.format_caption: the quote, then the three hashtags
format_caption(q, style, w) ==
    [quote |-> q, hashtags |-> <<"#Bible21", "#VerseOfTheDay", StyleHashtag(style.name)>>]

NoStyle == [name |-> None, weight |-> 0, shortcut |-> None,
            characteristics |-> None, has_name |-> FALSE]

NoReport == Report(None, None, FALSE, None, 0, 0, 0)

NothingHanded == [venice |-> <<>>, together |-> <<>>]

RunIdle ==
    /\ cfg = [telegram_ok |-> TRUE, twitter_enabled |-> FALSE, twitter_keys |-> TRUE,
              weather_enabled |-> FALSE, ai_service |-> "groq",
              image_service |-> "together", groq_key |-> TRUE,
              venice_key |-> TRUE, together_key |-> TRUE]
    /\ generator = None
    /\ weather_info = ""
    /\ art_style = NoStyle
    /\ backend = None
    /\ last = NoReport
    /\ authored = <<>>
    /\ handed = NothingHanded
    /\ used = NothingUsed
    /\ render_log = <<>>
    /\ image_bytes = None
    /\ telegram_success = FALSE
    /\ twitter_success = FALSE
    /\ result = None

RunInit ==
    /\ pc = "start"
    /\ cfg \in Configs
    /\ source_cfg = HardcodedSources
    /\ fetcher = NoFetcher
    /\ quote = None
    /\ fetch_log = <<>>
    /\ fetch_propagated = FALSE
    /\ calls = NoCalls
    /\ spc = "class"
    /\ styles = IMAGE_ART
    /\ total_weight = 0
    /\ draw = 0
    /\ selected = NoSelection
    /\ generator = None
    /\ weather_info = ""
    /\ art_style = NoStyle
    /\ backend = None
    /\ last = NoReport
    /\ authored = <<>>
    /\ handed = NothingHanded
    /\ used = NothingUsed
    /\ render_log = <<>>
    /\ image_bytes = None
    /\ telegram_success = FALSE
    /\ twitter_success = FALSE
    /\ result = None

Finish(r) == pc' = "done" /\ result' = r

MainExceptUncaught == "crash"

\* main: except Exception as e: logging.error(...)
MainExcept == "failure"

\* process_quote_and_image: except Exception as e: ... return False
ProcessExcept == "failure"

\* Config.reload_env(): load_dotenv reads the .env file, or raises on it
EnvOutcomes == {"loaded", "raise"}

\* main: the three validations
ValidateConfig ==
    /\ pc = "start"
    /\ \E env \in EnvOutcomes :
          IF env = "raise"
          THEN /\ Finish(MainExcept)
               /\ last' = Report("reload_env", None, TRUE, "raised", 0, 0, 0)
          ELSE /\ IF /\ validate_telegram_config(cfg)
                     /\ validate_twitter_config(cfg)
                     /\ validate_ai_config(cfg)
                  THEN pc' = "construct" /\ UNCHANGED result
                  ELSE Finish("failure")
               /\ UNCHANGED last
    /\ UNCHANGED <<source_cfg, fetcher, quote, fetch_log, fetch_propagated, calls,
                   cfg, generator, weather_info, art_style, backend, authored, handed, used,
                   render_log, image_bytes, telegram_success, twitter_success,
                   selVars>>

\* main: if not quote: return; else process_quote_and_image(quote).  The
\* fetcher's log ends here.
CheckQuote ==
    /\ pc = "fetched"
    /\ IF fetch_propagated THEN Finish(MainExcept)
       ELSE IF ~Truthy(quote) THEN Finish("failure")
       ELSE pc' = "weather" /\ UNCHANGED result
    /\ fetch_log' = <<>>
    /\ UNCHANGED <<source_cfg, fetcher, quote, fetch_propagated, calls,
                   cfg, generator, weather_info, art_style, backend, last, authored, handed, used,
                   render_log, image_bytes, telegram_success, twitter_success,
                   selVars>>

\* weather_info = WeatherAPI.format_weather_for_caption(WeatherAPI.fetch_weather())
ProcessWeather ==
    /\ pc = "weather"
    /\ \E resp \in WeatherResponses :
          LET rep == fetch_weather(cfg.weather_enabled, resp) IN
          /\ last' = rep
          /\ calls' = Called(calls, "weather")
          /\ IF rep.raised
             THEN Finish(ProcessExcept) /\ UNCHANGED weather_info
             ELSE /\ weather_info' = format_weather_for_caption(rep.value)
                  /\ pc' = "style"
                  /\ UNCHANGED result
    /\ UNCHANGED <<source_cfg, fetcher, quote, fetch_log, fetch_propagated,
                   cfg, generator, art_style, backend, authored, handed, used, render_log,
                   image_bytes, telegram_success, twitter_success, selVars>>

\* the draws of the run: the two ends of the selector's range
RunDraws(total) == {r \in Draws(total) : r = 0 \/ r = DrawDen * total - 1}

IndexOf(st, name) == CHOOSE i \in 1..Len(st) : st[i].name = name

\* art_style = GroqPromptGenerator.get_random_art_style(): the singleton and
\* its selector are made on the first call; style['name'] = style_name writes
\* into the catalog entry
SelectArtStyle ==
    /\ pc = "style"
    /\ LET total == IF spc = "class" THEN SelectorTotal(styles) ELSE total_weight IN
       \E r \in RunDraws(total) :
          LET sel == select_style(styles, r) IN
          /\ total_weight' = total
          /\ draw' = r
          /\ selected' = sel
          /\ spc' = "selected"
          /\ used' = [used EXCEPT !.selections = @ + 1]
          /\ IF sel.kind = "raise"
             THEN Finish(ProcessExcept) /\ UNCHANGED <<styles, art_style>>
             ELSE LET i == IndexOf(styles, sel.name) IN
                  /\ styles' = [styles EXCEPT ![i].has_name = TRUE]
                  /\ art_style' = [sel.style EXCEPT !.has_name = TRUE]
                  /\ pc' = "generate"
                  /\ UNCHANGED result
    /\ UNCHANGED <<source_cfg, fetcher, quote, fetch_log, fetch_propagated, calls,
                   cfg, generator, weather_info, backend, last, authored, handed, render_log,
                   image_bytes, telegram_success, twitter_success>>

\* image_generator = ImageGeneratorFactory.get_image_generator()
StartGenerate ==
    /\ pc = "generate"
    /\ backend' = get_image_generator(cfg)
    /\ pc' = IF get_image_generator(cfg) = "venice"
             THEN "create_prompt" ELSE "together_client"
    /\ UNCHANGED <<source_cfg, fetcher, quote, fetch_log, fetch_propagated, calls,
                   cfg, generator, weather_info, art_style, last, authored, handed, used, render_log,
                   image_bytes, telegram_success, twitter_success, result, selVars>>

\* ImageGenerator.generate_image: client = Together(api_key=...), which
\* raises without a key; the exception is caught and None returned
TogetherClient ==
    /\ pc = "together_client"
    /\ IF cfg.together_key
       THEN /\ pc' = "create_prompt"
            /\ UNCHANGED <<render_log, image_bytes>>
       ELSE /\ render_log' = Append(render_log,
                 Report("together", None, FALSE, "client_error", 0, 0, 0))
            /\ image_bytes' = None
            /\ pc' = "image_done"
    /\ UNCHANGED <<source_cfg, fetcher, quote, fetch_log, fetch_propagated, calls,
                   cfg, generator, weather_info, art_style, backend, last, authored, handed, used,
                   telegram_success, twitter_success, result, selVars>>

\* prompt = self.create_prompt(quote, art_style)
CreatePrompt ==
    /\ pc = "create_prompt"
    /\ \E wresp \in WeatherResponses, o \in GroqOutcomes,
          resp \in VeniceChatResponses :
          LET wrep == fetch_weather(cfg.weather_enabled, wresp)
              rep == generate_enhanced_prompt(cfg, wrep, o, resp)
          IN /\ last' = rep
             /\ authored' = Append(authored, create_prompt(rep.value, quote, art_style))
    /\ used' = [used EXCEPT !.prompts = Append(@, art_style.name)]
    /\ generator' = get_prompt_generator(cfg)
    /\ calls' = Called(Called(calls, "author"), "weather")
    /\ pc' = IF backend = "venice" THEN "render_venice" ELSE "render_together"
    /\ UNCHANGED <<source_cfg, fetcher, quote, fetch_log, fetch_propagated,
                   cfg, weather_info, art_style, backend, handed, render_log,
                   image_bytes, telegram_success, twitter_success, result, selVars>>

\* VeniceImageGenerator.generate_image from optimize_prompt on; a failure
\* whose message is length related goes on to ImageGenerator.generate_image
RenderVenice ==
    /\ pc = "render_venice"
    /\ handed' = [handed EXCEPT
                    !.venice = optimize_prompt(authored[Len(authored)]).text]
    /\ calls' = Called(calls, "venice")
    /\ \E resp \in VeniceResponses :
          LET rep == VeniceImageLoop(resp, 0, 0) IN
          /\ render_log' = Append(render_log, rep)
          /\ IF LengthRelated(rep)
             THEN /\ backend' = "together"
                  /\ pc' = "together_client"
                  /\ UNCHANGED image_bytes
             ELSE /\ image_bytes' = rep.value
                  /\ pc' = "image_done"
                  /\ UNCHANGED backend
    /\ UNCHANGED <<source_cfg, fetcher, quote, fetch_log, fetch_propagated,
                   cfg, generator, weather_info, art_style, last, authored, used,
                   telegram_success, twitter_success, result, selVars>>

\* ImageGenerator.generate_image from client.images.generate on
RenderTogether ==
    /\ pc = "render_together"
    /\ handed' = [handed EXCEPT !.together = authored[Len(authored)]]
    /\ calls' = Called(calls, "together")
    /\ \E o \in TogetherOutcomes :
          LET rep == TogetherCall(o) IN
          /\ render_log' = Append(render_log, rep)
          /\ image_bytes' = rep.value
    /\ pc' = "image_done"
    /\ UNCHANGED <<source_cfg, fetcher, quote, fetch_log, fetch_propagated,
                   cfg, generator, weather_info, art_style, backend, last, authored,
                   used, telegram_success, twitter_success, result, selVars>>

\* if not image_bytes: return False
CheckImage ==
    /\ pc = "image_done"
    /\ IF ImageProduced(image_bytes)
       THEN pc' = "telegram" /\ UNCHANGED result
       ELSE Finish("failure")
    /\ UNCHANGED <<source_cfg, fetcher, quote, fetch_log, fetch_propagated, calls,
                   cfg, generator, weather_info, art_style, backend, last, authored, handed, used,
                   render_log, image_bytes, telegram_success, twitter_success,
                   selVars>>

\* a refused send is made again
AfterTelegramRetry(ok) == IF ok THEN "twitter" ELSE "telegram"

\* if not telegram_success: return False; else on to the Twitter step
AfterTelegram(ok) == IF TelegramAccepted(ok) THEN "twitter" ELSE "done"

\* telegram_success = TelegramBot.send_image(...); if not: return False
SendTelegram ==
    /\ pc = "telegram"
    /\ used' = [used EXCEPT !.telegram = TelegramCaption(weather_info, quote, art_style)]
    /\ calls' = Called(calls, "telegram")
    /\ \E ok \in BOOLEAN :
          /\ telegram_success' = ok
          /\ pc' = AfterTelegram(ok)
          /\ result' = IF AfterTelegram(ok) = "done" THEN "failure" ELSE result
    /\ UNCHANGED <<source_cfg, fetcher, quote, fetch_log, fetch_propagated,
                   cfg, generator, weather_info, art_style, backend, last, authored, handed,
                   render_log, image_bytes, twitter_success, selVars>>

\* the Twitter step and `return True`; an exception leaving post_image would
\* end in the except block of process_quote_and_image
PostTwitter ==
    /\ pc = "twitter"
    /\ IF cfg.twitter_enabled
       THEN /\ calls' = Called(calls, "twitter")
            /\ used' = [used EXCEPT !.twitter = format_caption(quote, art_style, weather_info)]
            /\ \E o \in TwitterOutcomes :
                  LET post == post_image(o) IN
                  /\ last' = Report("twitter", None, post.raised, o, 1, 1, 0)
                  /\ IF post.raised
                     THEN Finish(ProcessExcept) /\ UNCHANGED twitter_success
                     ELSE Finish("success") /\ twitter_success' = post.value
       ELSE Finish("success") /\ UNCHANGED <<calls, twitter_success, last, used>>
    /\ UNCHANGED <<source_cfg, fetcher, quote, fetch_log, fetch_propagated,
                   cfg, generator, weather_info, art_style, backend, authored, handed,
                   render_log, image_bytes, telegram_success, selVars>>

(***************************************************************************)
(* The two factories on every configuration                                *)
(***************************************************************************)
FactoryInit ==
    /\ pc = "factory"
    /\ cfg \in Configs
    /\ generator = None
    /\ backend = None
    /\ source_cfg = HardcodedSources
    /\ fetcher = NoFetcher
    /\ quote = None
    /\ fetch_log = <<>>
    /\ fetch_propagated = FALSE
    /\ calls = NoCalls
    /\ weather_info = ""
    /\ art_style = NoStyle
    /\ last = NoReport
    /\ authored = <<>>
    /\ handed = NothingHanded
    /\ used = NothingUsed
    /\ render_log = <<>>
    /\ image_bytes = None
    /\ telegram_success = FALSE
    /\ twitter_success = FALSE
    /\ result = None

\* PromptGeneratorFactory.get_prompt_generator()
GetPromptGenerator ==
    /\ pc = "factory"
    /\ generator = None
    /\ generator' = get_prompt_generator(cfg)
    /\ UNCHANGED <<fetchVars, cfg, weather_info, art_style, backend, last, authored,
                   handed, used, render_log, image_bytes, telegram_success,
                   twitter_success, result, selVars>>

\* ImageGeneratorFactory.get_image_generator()
GetImageGenerator ==
    /\ pc = "factory"
    /\ backend = None
    /\ backend' = get_image_generator(cfg)
    /\ UNCHANGED <<fetchVars, cfg, generator, weather_info, art_style, last,
                   authored, handed, used, render_log, image_bytes, telegram_success,
                   twitter_success, result, selVars>>

(***************************************************************************)
(* Specifications                                                          *)
(***************************************************************************)
FetchNext ==
    \/ ConstructFetcher /\ UNCHANGED textVars
    \/ FetchPrimary /\ UNCHANGED textVars
    \/ FetchFallback /\ UNCHANGED textVars

InitFetch == FetchInit /\ TextIdle /\ SelIdle /\ RunIdle

SpecFetch == InitFetch /\ [][FetchNext]_vars

SelNext ==
    \/ SelConstruct /\ UNCHANGED <<textVars, fetchVars, runVars>>
    \/ SelSelect /\ UNCHANGED <<textVars, fetchVars, runVars>>

InitSel == SelInit /\ TextIdle /\ FetchIdle /\ RunIdle

SpecSel == InitSel /\ [][SelNext]_vars

Next ==
    \/ ValidateConfig /\ UNCHANGED textVars
    \/ ConstructFetcher /\ UNCHANGED textVars
    \/ FetchPrimary /\ UNCHANGED textVars
    \/ FetchFallback /\ UNCHANGED textVars
    \/ CheckQuote /\ UNCHANGED textVars
    \/ ProcessWeather /\ UNCHANGED textVars
    \/ SelectArtStyle /\ UNCHANGED textVars
    \/ StartGenerate /\ UNCHANGED textVars
    \/ TogetherClient /\ UNCHANGED textVars
    \/ CreatePrompt /\ UNCHANGED textVars
    \/ RenderVenice /\ UNCHANGED textVars
    \/ RenderTogether /\ UNCHANGED textVars
    \/ CheckImage /\ UNCHANGED textVars
    \/ SendTelegram /\ UNCHANGED textVars
    \/ PostTwitter /\ UNCHANGED textVars

Init == RunInit /\ TextIdle

Spec == Init /\ [][Next]_vars

\* the configurations with every credential set, and those with none
LiveConfigs ==
    {c \in Configs :
        /\ c.groq_key = c.venice_key /\ c.venice_key = c.together_key
        /\ c.together_key = c.twitter_keys /\ c.twitter_keys = c.telegram_ok
        /\ c.ai_service # "other" /\ c.image_service # "other"}

InitLive == Init /\ cfg \in LiveConfigs

\* the steps of a run other than the Venice rendering
RunSteps ==
    \/ ValidateConfig /\ UNCHANGED textVars
    \/ ConstructFetcher /\ UNCHANGED textVars
    \/ FetchPrimary /\ UNCHANGED textVars
    \/ FetchFallback /\ UNCHANGED textVars
    \/ CheckQuote /\ UNCHANGED textVars
    \/ ProcessWeather /\ UNCHANGED textVars
    \/ SelectArtStyle /\ UNCHANGED textVars
    \/ StartGenerate /\ UNCHANGED textVars
    \/ TogetherClient /\ UNCHANGED textVars
    \/ CreatePrompt /\ UNCHANGED textVars
    \/ RenderTogether /\ UNCHANGED textVars
    \/ CheckImage /\ UNCHANGED textVars
    \/ SendTelegram /\ UNCHANGED textVars
    \/ PostTwitter /\ UNCHANGED textVars

\* Weak fairness of the Venice rendering, with its enabling condition
\* written out: the step is enabled exactly at pc = "render_venice".
RenderVeniceFair ==
    \/ []<>(pc # "render_venice")
    \/ []<><<RenderVenice /\ UNCHANGED textVars>>_vars

\* The run is sequential: while a step is left and its external call
\* returns, the step is taken.
SpecLive == InitLive /\ [][Next]_vars /\ WF_vars(RunSteps) /\ RenderVeniceFair

FactoryNext ==
    \/ GetPromptGenerator /\ UNCHANGED textVars
    \/ GetImageGenerator /\ UNCHANGED textVars

InitFactory == FactoryInit /\ TextIdle /\ SelIdle

SpecFactory == InitFactory /\ [][FactoryNext]_vars

TextNext ==
    \/ Optimize /\ UNCHANGED <<selVars, fetchVars, runVars>>
    \/ OptimizeAgain /\ UNCHANGED <<selVars, fetchVars, runVars>>

InitText == TextInit /\ SelIdle /\ FetchIdle /\ RunIdle

SpecText == InitText /\ [][TextNext]_vars

\* C1: the text optimize_prompt returns is never longer than the limit.
C1_OutputWithinLimit ==
    tpc \in {"once", "twice"} => TextLen(tfirst.text) <= VENICE_PROMPT_LIMIT

\* C9: with a total weight above 0, select_style never returns an entry of
\* weight 0.
C9_NoZeroWeightSelected ==
    (spc = "selected" /\ total_weight > 0 /\ selected.kind = "ok")
        => selected.style.weight # 0

\* C10: on a non-empty catalog whose weights sum to 0, select_style fails
\* with an error and returns no entry.
C10_ZeroTotalFails ==
    (spc = "selected" /\ styles # <<>> /\ total_weight = 0)
        => selected.kind = "raise"

(***************************************************************************)
(* QuoteFetcher.fetch_quote has returned; what its sources did             *)
(***************************************************************************)
FetchReturned == pc = "fetched" /\ fetch_log # <<>>

SourceFailed(rep) == rep.raised \/ ~Truthy(rep.value)

PrimaryFailed == FetchReturned /\ SourceFailed(fetch_log[1])

DistinctFallback == fetcher.fallback_source # fetcher.current_source

\* C5: when the primary source fails in any way or yields nothing and the
\* fallback is another source, the fallback is invoked exactly once and its
\* non-empty quote is the result.
C5_FallbackAfterAnyPrimaryFailure ==
    (PrimaryFailed /\ DistinctFallback)
        => /\ calls[fetcher.fallback_source] = 1
           /\ Len(fetch_log) = 2
           /\ ~SourceFailed(fetch_log[2]) => quote = fetch_log[2].value

\* C6: a non-empty quote from the primary source is the result, and the
\* fallback source is not invoked.
C6_PrimarySuccessSkipsFallback ==
    (fetch_log # <<>> /\ ~SourceFailed(fetch_log[1]))
        => /\ pc = "fetched"
           /\ quote = fetch_log[1].value
           /\ Len(fetch_log) = 1
           /\ DistinctFallback => calls[fetcher.fallback_source] = 0

C6_Witness ==
    /\ FetchReturned /\ ~SourceFailed(fetch_log[1]) /\ DistinctFallback
    /\ fetch_log[1].attempts = MAX_RETRIES

\* C7: when every source that was tried failed or returned nothing,
\* fetch_quote returns None and no exception leaves it.
C7_AllFailedReturnsNone ==
    (FetchReturned /\ \A i \in 1..Len(fetch_log) : SourceFailed(fetch_log[i]))
        => quote = None /\ ~fetch_propagated

C7_Witness ==
    /\ FetchReturned /\ Len(fetch_log) = 2
    /\ SourceFailed(fetch_log[1]) /\ fetch_log[2].raised
    /\ quote = None

\* C8: when both identifiers resolve to the same source, a failed fetch is
\* not followed by a second one: the source is invoked once, with at most
\* MAX_RETRIES attempts.
C8_SameSourceFetchedOnce ==
    (FetchReturned /\ fetcher.fallback_source = fetcher.current_source)
        => /\ Len(fetch_log) = 1
           /\ calls[fetcher.current_source] = 1
           /\ fetch_log[1].attempts <= MAX_RETRIES

C8_Witness ==
    /\ PrimaryFailed /\ fetch_log[1].why = "exhausted"
    /\ source_cfg.QUOTE_SOURCE = "bible21" /\ source_cfg.FALLBACK_SOURCE = "unknown"
    /\ calls["bible21"] = 1 /\ calls["dailyverses"] = 0

(***************************************************************************)
(* The run of main                                                         *)
(***************************************************************************)
RenderOver == pc \in {"image_done", "telegram", "twitter", "done"} /\ render_log # <<>>

\* C2: when the render of the selected backend, Venice or Together, fails
\* with a length-related error, the other backend is tried exactly once, and
\* an image it produces is the image of the run.
C2_LengthFailureTriesOtherBackend ==
    (RenderOver /\ render_log[1].why = "error_length") =>
        /\ Len(render_log) = 2
        /\ render_log[2].source # render_log[1].source
        /\ Truthy(render_log[2].value) => image_bytes = render_log[2].value

\* C3: create_prompt is invoked at most once in a run, and every backend
\* that is called, the alternate one included, is handed the one prompt it
\* produced (Venice after optimize_prompt).
C3_OnePromptPerRun ==
    /\ calls["author"] <= 1
    /\ Len(authored) <= 1
    /\ handed.together # <<>> => handed.together = authored[1]
    /\ handed.venice # <<>> => handed.venice = optimize_prompt(authored[1]).text

\* C4: a finished run is a success exactly when a non-empty quote was
\* fetched, a non-empty image was produced and Telegram accepted it,
\* whatever the Twitter step did.
C4_SuccessIffQuoteImageTelegram ==
    pc = "done" =>
        (result = "success" <=>
            Truthy(quote) /\ Truthy(image_bytes) /\ telegram_success)

\* a successful run whose tweet failed
C4_Witness ==
    /\ pc = "done"
    /\ result = "success"
    /\ cfg.twitter_enabled
    /\ last.why = "tweet_error"
    /\ Truthy(quote) /\ Truthy(image_bytes) /\ telegram_success

(***************************************************************************)
(* The selector on an empty catalog; the validator applied twice           *)
(***************************************************************************)
\* C11: constructing the selector on an empty catalog succeeds (with a total
\* weight of 0), and select_style on it raises ValueError and returns no
\* entry.
C11_EmptyCatalogRaises ==
    /\ (spc \in {"ready", "selected"} /\ styles = <<>>) => total_weight = 0
    /\ (spc = "selected" /\ styles = <<>>) =>
           selected = [kind |-> "raise", exc |-> "ValueError"]

\* select_style was called on a constructed selector with no entry
C11_Witness ==
    /\ spc = "selected"
    /\ styles = <<>>
    /\ selected.kind = "raise"

\* C12: optimize_prompt applied to the text optimize_prompt returned gives
\* that text back with was_truncated = False.
C12_Idempotent ==
    tpc = "twice" => tsecond = [text |-> tfirst.text, was_truncated |-> FALSE]

\* C13: a text of at most VENICE_PROMPT_LIMIT characters is returned
\* unchanged with was_truncated = False.
C13_WithinLimitUnchanged ==
    (tpc \in {"once", "twice"} /\ TextLen(tprompt) <= VENICE_PROMPT_LIMIT)
        => tfirst = [text |-> tprompt, was_truncated |-> FALSE]

\* optimize_prompt has returned for a text of exactly the limit
C13_Witness ==
    /\ tpc = "once"
    /\ TextLen(tprompt) = VENICE_PROMPT_LIMIT
    /\ tfirst.text = tprompt
    /\ ~tfirst.was_truncated

(***************************************************************************)
(* Retried fetches: what a report says about the requests made             *)
(***************************************************************************)
\* the reports of the retried fetches in the state: those of the quote
\* sources, and that of the weather fetch of process_quote_and_image
FetchReports ==
    {fetch_log[i] : i \in 1..Len(fetch_log)} \cup
    (IF last.source = "weather" THEN {last} ELSE {})

\* Loop iterations before the last one whose request did not fail: every
\* iteration that ends in a request error and is not the last one sleeps
\* once, and nothing else sleeps.
EarlierAnswered(rep) == rep.attempts - 1 - rep.sleeps

\* C14: a retried fetch (of either quote source, of the weather) issues at
\* most MAX_RETRIES requests, and none after the first request that was
\* answered.
C14_AtMostMaxRetriesRequests ==
    \A rep \in FetchReports :
        /\ rep.requests <= MAX_RETRIES
        /\ rep.requests = rep.attempts
        /\ EarlierAnswered(rep) <= 0

\* what the caller of a fetch gets
Returned(rep) == <<rep.value, rep.raised>>

\* every attempt of the fetch ended in a request error
Exhausted(rep) == rep.why = "exhausted"

\* a request was answered and the answer held nothing usable
EmptySource(rep) ==
    \/ rep.why \in {"nomarkup", "nodata", "loop_end"}
    \/ rep.why = "found" /\ ~Truthy(rep.value)

\* C15: a fetch whose attempts all failed signals a failure to its caller,
\* and what the caller gets differs from what it gets from a fetch that was
\* answered without usable content.
C15_ExhaustionDistinctFromEmpty ==
    \A a \in FetchReports :
        Exhausted(a) =>
            /\ a.raised
            /\ \A b \in FetchReports : EmptySource(b) => Returned(a) # Returned(b)

(***************************************************************************)
(* create_prompt when the prompt generator gives nothing                   *)
(***************************************************************************)
Contains(text, tok) == \E i \in 1..Len(text) : text[i] = tok

\* the latest call of generate_enhanced_prompt returned None or ""
AuthoringFailed ==
    /\ last.source = "author"
    /\ last.value.none \/ last.value.text = <<>>

\* C16: when generate_enhanced_prompt gives no prompt, create_prompt returns
\* the locally built prompt, which holds the quote, the style's name and its
\* characteristics, and the run goes on to the render of the backend: every
\* prompt that was returned is followed by a render.
C16_LocalPromptOnAuthoringFailure ==
    AuthoringFailed =>
        /\ pc \in {"render_venice", "render_together"} =>
              LET prompt == authored[Len(authored)] IN
              /\ prompt = LocalPrompt(quote, art_style)
              /\ Contains(prompt, Lit(quote))
              /\ Contains(prompt, Lit(art_style.name))
              /\ Contains(prompt, Lit(art_style.characteristics))
              /\ result = None
        /\ pc \notin {"render_venice", "render_together"} =>
              Len(render_log) >= Len(authored)

\* the generator failed, the local prompt was built and handed to Together
C16_Witness ==
    /\ AuthoringFailed
    /\ pc = "image_done"
    /\ backend = "together"
    /\ handed.together = LocalPrompt(quote, art_style)
    /\ render_log[Len(render_log)].why = "found"

(***************************************************************************)
(* The factories                                                           *)
(***************************************************************************)
\* the credential of a backend is set
HasCredential(c, name) ==
    CASE name = "groq" -> c.groq_key
      [] name = "venice" -> c.venice_key
      [] name = "together" -> c.together_key
      [] OTHER -> FALSE

\* what a slot resolves to: the requested backend if it is one of the
\* slot's backends and its credential is set, the default otherwise
Resolved(c, requested, known, default) ==
    IF requested \in known /\ HasCredential(c, requested) THEN requested ELSE default

\* C17: for every configured name each factory returns a backend: the
\* requested one when its credential is set, otherwise the default (Groq for
\* prompts, Together for images).
C17_FactoriesResolve ==
    pc = "factory" =>
        /\ generator # None =>
              generator = Resolved(cfg, cfg.ai_service, {"groq", "venice"}, "groq")
        /\ backend # None =>
              backend = Resolved(cfg, cfg.image_service, {"together", "venice"},
                                 "together")

\* both factories were asked for Venice without its key
C17_Witness ==
    /\ pc = "factory"
    /\ cfg.ai_service = "venice" /\ cfg.image_service = "venice"
    /\ ~cfg.venice_key
    /\ generator = "groq"
    /\ backend = "together"

(***************************************************************************)
(* Publishing                                                              *)
(***************************************************************************)
Published == calls["telegram"] + calls["twitter"]

\* C18: Telegram and Twitter are called only with a non-empty quote and a
\* non-empty image; a run in which both sources gave nothing ends in failure
\* without a call of the weather, prompt, image, Telegram or Twitter
\* services.
C18_NoPublishWithoutQuoteAndImage ==
    /\ Published > 0 => Truthy(quote) /\ Truthy(image_bytes)
    /\ (pc = "done" /\ calls["bible21"] > 0 /\ ~Truthy(quote)) =>
          /\ result = "failure"
          /\ \A op \in {"weather", "author", "venice", "together",
                        "telegram", "twitter"} : calls[op] = 0

\* both sources were fetched, neither gave a quote, and the run is over
C18_Witness ==
    /\ pc = "done"
    /\ calls["bible21"] = 1 /\ calls["dailyverses"] = 1
    /\ quote = None
    /\ result = "failure"
    /\ Published = 0

\* C19: when Telegram does not accept the image the run is a failure and
\* Twitter is not called.
C19_TelegramFailureAborts ==
    (calls["telegram"] > 0 /\ ~telegram_success) =>
        /\ pc = "done"
        /\ result = "failure"
        /\ calls["twitter"] = 0

\* Telegram was called with Twitter enabled and refused the image
C19_Witness ==
    /\ pc = "done"
    /\ cfg.twitter_enabled
    /\ calls["telegram"] = 1
    /\ ~telegram_success
    /\ result = "failure"

\* the Twitter step failed at the media upload or at the tweet
TwitterFailed ==
    last.source = "twitter" /\ last.why \in {"upload_error", "tweet_error"}

\* C20: after Telegram accepted the image, a failure of the Twitter post
\* leaves the run a success, and Telegram is neither called again nor its
\* success withdrawn.
C20_TwitterFailureKeepsSuccess ==
    TwitterFailed =>
        /\ pc = "done"
        /\ result = "success"
        /\ telegram_success
        /\ calls["telegram"] = 1

\* the media upload failed after the image went to Telegram
C20_Witness ==
    /\ last.source = "twitter"
    /\ last.why = "upload_error"
    /\ calls["telegram"] = 1
    /\ calls["twitter"] = 1
    /\ result = "success"

(***************************************************************************)
(* The weather fetch of process_quote_and_image                            *)
(***************************************************************************)
\* the weather fetch of process_quote_and_image was the latest operation
WeatherFetched == last.source = "weather"

\* C21: whatever the weather fetch of process_quote_and_image comes to
\* (data, nothing, disabled, retries exhausted), the run goes on to the
\* style selection as it does with data: the lack of weather data never
\* ends a run.
C21_WeatherNeverEndsRun ==
    WeatherFetched =>
        /\ pc \in {"style", "generate", "together_client", "create_prompt"}
        /\ result = None

(***************************************************************************)
(* Exceptions and the run                                                  *)
(***************************************************************************)
\* the latest operation raised an exception to main or to
\* process_quote_and_image
RaisedToRun == last.raised

\* C22: no exception leaves main: a run ends as a success or as a failure,
\* and a run in which a step raised ends as a failure.
C22_MainNeverPropagates ==
    /\ result \in {None, "success", "failure"}
    /\ pc = "done" => result # None
    /\ RaisedToRun => pc = "done" /\ result = "failure"

\* reload_env raised at the start of main and the run ended as a failure
C22_Witness ==
    /\ pc = "done"
    /\ last.source = "reload_env"
    /\ last.raised
    /\ result = "failure"

(***************************************************************************)
(* The catalog, the render fallback, retries and waits                     *)
(***************************************************************************)
\* C23: style selection leaves the catalog as it was at the start: every
\* entry keeps exactly its fields and values.
C23_CatalogUnchanged == styles = IMAGE_ART

\* C24: a render failure that is not length related (another error, an
\* answer without image data, rate limiting to the last attempt) never
\* brings in the other backend: one backend was called and the run fails.
C24_NoFallbackOnOtherFailure ==
    (RenderOver /\ render_log[1].why # "error_length"
                /\ ~Truthy(render_log[1].value)) =>
        /\ Len(render_log) = 1
        /\ calls["venice"] + calls["together"] <= 1
        /\ image_bytes = render_log[1].value
        /\ pc = "done" => result = "failure"

\* Venice failed with an error that is not length related and the run ended
C24_Witness ==
    /\ pc = "done"
    /\ Len(render_log) = 1
    /\ render_log[1].source = "venice"
    /\ render_log[1].why = "error_other"
    /\ calls["together"] = 0
    /\ result = "failure"

\* every report of a network operation in the state
NetworkReports ==
    FetchReports \cup {render_log[i] : i \in 1..Len(render_log)}
                 \cup (IF last.source = "author" THEN {last} ELSE {})

\* the operation ended on a failed request
FailedOnRequest(rep) == rep.why \in {"exhausted", "download_error"}

\* C25: a network operation that fails on its requests has made
\* MAX_RETRIES attempts before the failure leaves the component.
C25_FailuresAreRetried ==
    \A rep \in NetworkReports : FailedOnRequest(rep) => rep.attempts = MAX_RETRIES

\* C26: a retried operation that made n attempts waited n - 1 times: once
\* between two consecutive attempts and not after the last.
C26_OneWaitBetweenAttempts ==
    \A rep \in NetworkReports : rep.attempts >= 1 => rep.sleeps = rep.attempts - 1

\* C29: post_image returns failure when the upload or the tweet failed and
\* success only when the post was made.
C29_PostImageReportsFailure ==
    (last.source = "twitter" /\ pc = "done") =>
        (twitter_success <=> last.why = "posted")



\* the cumulative weight of the first i entries of a catalog
Cumulative(st, i) == SumWeights(SubSeq(st, 1, i))

\* entry i is the first one, in catalog order, whose cumulative weight is
\* at least the draw r / DrawDen
FirstReaching(st, r, i) ==
    /\ DrawDen * Cumulative(st, i) >= r
    /\ \A j \in 1..(i - 1) : DrawDen * Cumulative(st, j) < r

\* C27: for a non-empty catalog of total weight > 0 and any draw in
\* [0, total], select_style returns the first entry in catalog order whose
\* cumulative weight is at least the draw, and the returned (name, entry)
\* pair is a member of the catalog.
C27_FirstEntryReachingDraw ==
    (spc \in {"ready", "selected"} /\ styles # <<>> /\ total_weight > 0) =>
        /\ \A r \in 0..(DrawDen * total_weight) :
              LET s == select_style(styles, r) IN
              /\ s.kind = "ok"
              /\ \E i \in 1..Len(styles) :
                    /\ s.style = styles[i]
                    /\ s.name = styles[i].name
                    /\ FirstReaching(styles, r, i)
        /\ spc = "selected" =>
              /\ selected.kind = "ok"
              /\ \E i \in 1..Len(styles) :
                    /\ selected.style = styles[i]
                    /\ selected.name = styles[i].name
                    /\ FirstReaching(styles, draw, i)

\* a draw that equals the cumulative weight of the first of several entries
\* selected that first entry
C27_Witness ==
    /\ spc = "selected"
    /\ Len(styles) >= 2
    /\ styles[1].weight > 0
    /\ draw = DrawDen * styles[1].weight
    /\ selected.kind = "ok"
    /\ selected.name = styles[1].name

\* C30: constructing QuoteFetcher succeeds for every pair of configured
\* identifiers; a registered identifier is kept, an unknown one is replaced
\* by 'bible21', so both identifiers name a registered source afterwards.
C30_UnknownSourceReplaced ==
    fetcher # NoFetcher =>
        /\ pc # "construct"
        /\ fetcher.current_source \in Sources
        /\ fetcher.fallback_source \in Sources
        /\ fetcher.current_source =
              (IF source_cfg.QUOTE_SOURCE \in Sources
               THEN source_cfg.QUOTE_SOURCE ELSE "bible21")
        /\ fetcher.fallback_source =
              (IF source_cfg.FALLBACK_SOURCE \in Sources
               THEN source_cfg.FALLBACK_SOURCE ELSE "bible21")

\* both configured identifiers were unknown and the fetcher was constructed
C30_Witness ==
    /\ source_cfg.QUOTE_SOURCE \notin Sources
    /\ source_cfg.FALLBACK_SOURCE \notin Sources
    /\ fetcher = [current_source |-> "bible21", fallback_source |-> "bible21"]
    /\ pc = "primary"

C31_ConfiguredLimitEnforced ==
    tpc \in {"once", "twice"} =>
        (tfirst.was_truncated <=>
            TextLen(tprompt) > get_prompt_length_limit(prompt_length_env))

\* the text of truncate_prompt after the phrases and the words were removed
AfterRemovals(prompt) ==
    LET t1 == RemovePhrasesFrom(prompt, 1)
    IN IF TextLen(t1) > VENICE_PROMPT_LIMIT THEN RemoveWordsFrom(t1, 1) ELSE t1

\* the hard cut as stated: the prefix of length L, shortened to its last
\* space when that space is at index >= 0.8 L
StatedHardCut(t) ==
    LET cut == Prefix(t, VENICE_PROMPT_LIMIT)
        last_space == RFindSpace(cut)
    IN IF 10 * last_space >= 8 * VENICE_PROMPT_LIMIT
       THEN Prefix(cut, last_space) ELSE cut

\* the marker step as stated: appended when more than 10% was lost
StatedMarker(t, prompt) ==
    IF 10 * TextLen(t) < 9 * TextLen(prompt)
    THEN Norm(RStrip(t) \o <<Ellipsis>>) ELSE t

\* the hard cut applies to the input of this state
HardCutApplied ==
    /\ tpc \in {"once", "twice"}
    /\ TextLen(tprompt) > VENICE_PROMPT_LIMIT
    /\ TextLen(AfterRemovals(tprompt)) > VENICE_PROMPT_LIMIT

\* C32: when the hard cut is applied the text is cut at index L and then
\* shortened to the last space of that prefix exactly when the space's index
\* is >= 0.8 L; otherwise the prefix of length L is kept.
C32_BacktrackFromEightyPercent ==
    HardCutApplied =>
        tfirst.text = StatedMarker(StatedHardCut(AfterRemovals(tprompt)), tprompt)

\* the text of truncate_prompt after its shrinking steps
AfterShrinking(prompt) ==
    LET t2 == AfterRemovals(prompt)
    IN IF TextLen(t2) > VENICE_PROMPT_LIMIT THEN HardCut(t2) ELSE t2

\* C33: after the shrinking steps the ellipsis is appended exactly when the
\* shortened text is below 90% of the input's length.
C33_EllipsisOnTenPercentLoss ==
    (tpc \in {"once", "twice"} /\ tfirst.was_truncated) =>
        LET t == AfterShrinking(tprompt)
            marked == tfirst.text # <<>> /\ tfirst.text[Len(tfirst.text)] = Ellipsis
        IN /\ marked <=> 10 * TextLen(t) < 9 * TextLen(tprompt)
           /\ tfirst.text = StatedMarker(t, tprompt)

\* a text shortened by less than 10%: no marker
C33_Witness ==
    /\ tpc = "once"
    /\ tfirst.was_truncated
    /\ TextLen(tfirst.text) < TextLen(tprompt)
    /\ 10 * TextLen(tfirst.text) >= 9 * TextLen(tprompt)
    /\ tfirst.text[Len(tfirst.text)] # Ellipsis

\* the external calls of a run so far are within their bounds
CallsBounded ==
    /\ \A rep \in NetworkReports :
          rep.attempts <= MAX_RETRIES /\ rep.sleeps <= MAX_RETRIES
    /\ \A rep \in FetchReports : rep.requests <= MAX_RETRIES + 1
    /\ calls["bible21"] <= 1 /\ calls["dailyverses"] <= 1
    /\ calls["venice"] <= 1 /\ calls["together"] <= 1
    /\ Len(render_log) <= 2
    /\ Len(authored) <= 2 /\ calls["author"] <= 2
    /\ calls["telegram"] <= 1 /\ calls["twitter"] <= 1

\* C34: every run of main terminates when each external call returns: each
\* retry loop makes at most MAX_RETRIES attempts, at most two sources and
\* two backends are tried and each channel is published to at most once.
C34_RunTerminates == []CallsBounded /\ <>(pc = "done")

\* a finished run that used every attempt of the Venice loop, then the
\* alternate backend, and published on both channels
C34_Witness ==
    /\ pc = "done"
    /\ Len(render_log) = 2
    /\ render_log[1].attempts = MAX_RETRIES
    /\ calls["telegram"] = 1
    /\ calls["twitter"] = 1

\* C35: in any run the Telegram publish is attempted at most once and the
\* Twitter publish at most once, whatever fails before or after.
C35_PublishAtMostOnce ==
    /\ calls["telegram"] <= 1
    /\ calls["twitter"] <= 1
    /\ (pc = "done" /\ calls["telegram"] = 1 /\ ~telegram_success) =>
          calls["twitter"] = 0 /\ result = "failure"

\* the first rendering failed, the Twitter upload failed: one attempt each
C35_Witness ==
    /\ pc = "done"
    /\ Len(render_log) = 2
    /\ last.source = "twitter"
    /\ last.why = "upload_error"
    /\ calls["telegram"] = 1
    /\ calls["twitter"] = 1

\* one of the three validations of main fails on the configuration
TwitterMisconfigured == cfg.twitter_enabled /\ ~cfg.twitter_keys

AIMisconfigured ==
    \/ cfg.ai_service \notin {"groq", "venice"}
    \/ cfg.image_service \notin {"together", "venice"}
    \/ cfg.ai_service = "groq" /\ ~cfg.groq_key
    \/ cfg.image_service = "together" /\ ~cfg.together_key
    \/ "venice" \in {cfg.ai_service, cfg.image_service} /\ ~cfg.venice_key

ValidationFails == ~cfg.telegram_ok \/ TwitterMisconfigured \/ AIMisconfigured

\* C36: when one of the three validations fails, main ends the run before
\* any content fetch, provider call or publish attempt.
C36_NoActionOnInvalidConfig ==
    (pc # "start" /\ ValidationFails) =>
        /\ pc = "done"
        /\ result = "failure"
        /\ calls = NoCalls
        /\ fetcher = NoFetcher
        /\ fetch_log = <<>>
        /\ used = NothingUsed
        /\ authored = <<>>
        /\ render_log = <<>>

\* Twitter enabled without its credentials, everything else valid
C36_Witness ==
    /\ pc = "done"
    /\ TwitterMisconfigured
    /\ cfg.telegram_ok
    /\ ~AIMisconfigured
    /\ last = NoReport
    /\ result = "failure"

\* the response arrived and lacks the quote markup: no span of the quote
\* class (bible21), no div.b1 or a div.b1 without span.v1 (dailyverses)
LacksMarkup(o) == o \in {"nomarkup", "partial"}

\* the first request of resp that was answered, 0 if none was
FirstAnswered(resp) ==
    IF \A i \in 1..MAX_RETRIES : resp[i] = "reqerr" THEN 0
    ELSE CHOOSE i \in 1..MAX_RETRIES :
            resp[i] # "reqerr" /\ \A j \in 1..(i - 1) : resp[j] = "reqerr"

\* C37: for both quote sources, a response that arrives but lacks the quote
\* markup ends the source's fetch with an empty result after that request:
\* no further attempt and no further request is made.
C37_MissingMarkupEndsFetch ==
    \A n \in 1..Len(fetch_log) :
        LET rep == fetch_log[n] IN
        \A resp \in Responses(rep.source) :
            LET i == FirstAnswered(resp) IN
            (SourceFetch(rep.source, resp) = rep /\ i # 0 /\ LacksMarkup(resp[i])) =>
                /\ rep.value = None
                /\ ~rep.raised
                /\ rep.attempts = i
                /\ rep.requests = i
====
